---------------------------- MODULE Spec2Model ----------------------------
(***************************************************************************)
(* Ramer-Douglas-Peucker polyline simplification, src/src/lib.rs.          *)
(*                                                                         *)
(* One call of ramer_douglas_peucker(v, epsilon) is a state machine: the   *)
(* early return for short inputs, then one step per iteration of the       *)
(* `while let Some(..) = stack.pop()` loop, then the return of `result`.   *)
(*                                                                         *)
(* Numbers.  Coordinates are integers on a small grid.  A distance (an f64 *)
(* in the code) is kept as its exact square, a fraction num/den with       *)
(* den > 0; the code's `>` between two distances is the cross-multiplied   *)
(* comparison of the squares (both are non-negative).  epsilon is the      *)
(* fraction epsilon/EpsDen.  On these inputs the rounded f64 values order  *)
(* exactly as the exact ones do: two distances of one scan share their     *)
(* denominator, and a distance equal to epsilon has a perfect-square       *)
(* denominator, so both sides round to the same f64.                       *)
(*                                                                         *)
(* Indices are 0-based as in the code; At(s, i) reads s[i].                *)
(***************************************************************************)
EXTENDS Integers, Sequences, FiniteSets, TLC

VARIABLES v, epsilon, pc, stack, result, last_stack_index, returned

vars == <<v, epsilon, pc, stack, result, last_stack_index, returned>>

---------------------------------------------------------------------------
(* Bounds of the model *)

\* longest input sequence
MaxLen == 4
\* coordinates range over 0..MaxCoord
MaxCoord == 1
\* epsilon is a multiple of 1/EpsDen
EpsDen == 2
\* largest epsilon numerator; the smallest is -1 (one negative tolerance)
MaxEpsNum == 3

\* the work list may hold this many ranges before `stack.push` can no longer
\* allocate; a run with epsilon >= 0 never holds more than Len(v) - 1 ranges
StackCap == MaxLen + 1

Coords == 0 .. MaxCoord
Points == Coords \X Coords
EpsilonValues == -1 .. MaxEpsNum

\* An element T: HasPoint is a point with a payload; the payload of the
\* element at index i of the input is i, so that equal points at different
\* positions stay distinguishable.
Elements == [pt : Points, id : 0 .. (MaxLen - 1)]

Input(pts) == [i \in 1 .. Len(pts) |-> [pt |-> pts[i], id |-> i - 1]]

PointSeqs == UNION {[1 .. n -> Points] : n \in 0 .. MaxLen}

---------------------------------------------------------------------------
(* Helpers *)

At(s, i) == s[i + 1]

to_point(e) == e.pt

ZeroDistance == [num |-> 0, den |-> 1]

\* f64 `>` between two distances
Greater(d1, d2) == d1.num * d2.den > d2.num * d1.den

distance_point_to_point(x, y) ==
    LET a == y[1] - x[1]
        b == y[2] - x[2]
    IN  [num |-> a * a + b * b, den |-> 1]

\* mutant of distance_point_to_line: no test for a degenerate line.  The general
\* formula then divides 0 by 0; the NaN it yields is never `>` anything, which
\* is what a fraction with num = 0 and den = 0 does under Greater.
distance_point_to_line_NoDegenerate(p, l) ==
    LET a == l[1][2] - l[2][2]
        b == l[2][1] - l[1][1]
        c == l[1][1] * l[2][2] - l[2][1] * l[1][2]
        n == a * p[1] + b * p[2] + c
    IN  [num |-> n * n, den |-> a * a + b * b]

distance_point_to_line(p, l) ==
    IF l[1] = l[2]
    THEN distance_point_to_point(p, l[1])
    ELSE LET a == l[1][2] - l[2][2]
             b == l[2][1] - l[1][1]
             c == l[1][1] * l[2][2] - l[2][1] * l[1][2]
             n == a * p[1] + b * p[2] + c
         IN  [num |-> n * n, den |-> a * a + b * b]

\* mutant of UpdatesMax: `>=`, so that a later equal distance replaces the record
UpdatesMaxOnTie(distance, max_distance) == ~Greater(max_distance, distance)

\* `if distance > max_distance`
UpdatesMax(distance, max_distance) == Greater(distance, max_distance)

\* `for i in start_index+1..end_index { ... }` from index i on
RECURSIVE ForLoop(_, _, _, _, _, _)
ForLoop(vv, start_index, end_index, i, max_distance, max_index) ==
    IF i >= end_index
    THEN [max_distance |-> max_distance, max_index |-> max_index]
    ELSE LET point == to_point(At(vv, i))
             line == <<to_point(At(vv, start_index)), to_point(At(vv, end_index))>>
             distance == distance_point_to_line(point, line)
         IN  IF UpdatesMax(distance, max_distance)
             THEN ForLoop(vv, start_index, end_index, i + 1, distance, i)
             ELSE ForLoop(vv, start_index, end_index, i + 1, max_distance, max_index)

\* mutant of ScanRange: the scan starts one index late
ScanRangeSkipFirst(vv, start_index, end_index) ==
    ForLoop(vv, start_index, end_index, start_index + 2, ZeroDistance, start_index)

\* max_distance and max_index of one popped range
ScanRange(vv, start_index, end_index) ==
    ForLoop(vv, start_index, end_index, start_index + 1, ZeroDistance, start_index)

\* mutant of ExceedsEpsilon: `>=`
ExceedsOrEqualsEpsilon(max_distance, eps) ==
    IF eps < 0
    THEN TRUE
    ELSE max_distance.num * EpsDen * EpsDen >= eps * eps * max_distance.den

\* mutant of ExceedsEpsilon: the comparison the wrong way round
ExceedsEpsilonReversed(max_distance, eps) ==
    IF eps < 0
    THEN FALSE
    ELSE max_distance.num * EpsDen * EpsDen < eps * eps * max_distance.den

\* `if max_distance > epsilon`, epsilon = eps / EpsDen
ExceedsEpsilon(max_distance, eps) ==
    IF eps < 0
    THEN TRUE
    ELSE max_distance.num * EpsDen * EpsDen > eps * eps * max_distance.den

\* mutant of TooShort: the threshold one too low
TooShortBelowTwo(length) == length < 2

\* `if length < 3 { return v; }`
TooShort(length) == length < 3

Pop(stk) == SubSeq(stk, 1, Len(stk) - 1)

Top(stk) == stk[Len(stk)]

\* mutant of PushSplit: the two pushes in the other order
PushSplitLeftFirst(stk, start_index, max_index, end_index) ==
    Append(Append(stk, <<start_index, max_index>>), <<max_index, end_index>>)

\* the two pushes of a split, onto the stack the range was popped from
PushSplit(stk, start_index, max_index, end_index) ==
    Append(Append(stk, <<max_index, end_index>>), <<start_index, max_index>>)

\* mutant of Emit: no check against last_stack_index
EmitAlwaysStart(vv, res, last, start_index, end_index) ==
    Append(Append(res, At(vv, start_index)), At(vv, end_index))

\* mutant of Emit: `==` for `!=`
EmitStartWhenEqual(vv, res, last, start_index, end_index) ==
    IF last = start_index
    THEN Append(Append(res, At(vv, start_index)), At(vv, end_index))
    ELSE Append(res, At(vv, end_index))

\* the pushes onto result of a collapsed range
Emit(vv, res, last, start_index, end_index) ==
    IF last # start_index
    THEN Append(Append(res, At(vv, start_index)), At(vv, end_index))
    ELSE Append(res, At(vv, end_index))

---------------------------------------------------------------------------
(* The call as a state machine *)

Init ==
    /\ v \in {Input(pts) : pts \in PointSeqs}
    /\ epsilon \in EpsilonValues
    /\ pc = "start"
    /\ stack = <<>>
    /\ result = <<>>
    /\ last_stack_index = -1
    /\ returned = <<>>

\* length < 3: the input is returned as it is
ReturnShort ==
    /\ pc = "start"
    /\ TooShort(Len(v))
    /\ pc' = "done"
    /\ returned' = v
    /\ UNCHANGED <<v, epsilon, stack, result, last_stack_index>>

\* the work list starts with the whole range; last_stack_index starts at -1,
\* which is the index of no element
Begin ==
    /\ pc = "start"
    /\ ~TooShort(Len(v))
    /\ stack' = <<<<0, Len(v) - 1>>>>
    /\ result' = <<>>
    /\ last_stack_index' = -1
    /\ pc' = "loop"
    /\ UNCHANGED <<v, epsilon, returned>>

\* one iteration that splits the popped range
Split ==
    /\ pc = "loop"
    /\ stack # <<>>
    /\ LET start_index == Top(stack)[1]
           end_index == Top(stack)[2]
           scan == ScanRange(v, start_index, end_index)
       IN  /\ ExceedsEpsilon(scan.max_distance, epsilon)
           /\ Len(stack) + 1 <= StackCap
           /\ stack' = PushSplit(Pop(stack), start_index, scan.max_index, end_index)
    /\ UNCHANGED <<v, epsilon, pc, result, last_stack_index, returned>>

\* one iteration that splits the popped range when the work list cannot grow:
\* the allocation in `stack.push` fails and the process aborts without a result
AllocFail ==
    /\ pc = "loop"
    /\ stack # <<>>
    /\ LET start_index == Top(stack)[1]
           end_index == Top(stack)[2]
           scan == ScanRange(v, start_index, end_index)
       IN  /\ ExceedsEpsilon(scan.max_distance, epsilon)
           /\ Len(stack) + 1 > StackCap
    /\ pc' = "abort"
    /\ UNCHANGED <<v, epsilon, stack, result, last_stack_index, returned>>

\* one iteration that collapses the popped range to its endpoints
Collapse ==
    /\ pc = "loop"
    /\ stack # <<>>
    /\ LET start_index == Top(stack)[1]
           end_index == Top(stack)[2]
           scan == ScanRange(v, start_index, end_index)
       IN  /\ ~ExceedsEpsilon(scan.max_distance, epsilon)
           /\ result' = Emit(v, result, last_stack_index, start_index, end_index)
           /\ last_stack_index' = end_index
           /\ stack' = Pop(stack)
    /\ UNCHANGED <<v, epsilon, pc, returned>>

\* stack.pop() is None: result is returned
Finish ==
    /\ pc = "loop"
    /\ stack = <<>>
    /\ pc' = "done"
    /\ returned' = result
    /\ UNCHANGED <<v, epsilon, stack, result, last_stack_index>>

Next == ReturnShort \/ Begin \/ Split \/ AllocFail \/ Collapse \/ Finish

Spec == Init /\ [][Next]_vars

\* the loop is sequential code: a step that can be taken is taken
FairSpec == Spec /\ WF_vars(Next)

\* The whole call as a function of its arguments: the same loop, run to its end.
\* aborted is TRUE when the work list outgrows StackCap and no result exists.
RECURSIVE RunLoop(_, _, _, _, _)
RunLoop(vv, eps, stk, res, last) ==
    IF stk = <<>>
    THEN [aborted |-> FALSE, returned |-> res]
    ELSE LET start_index == Top(stk)[1]
             end_index == Top(stk)[2]
             scan == ScanRange(vv, start_index, end_index)
         IN  IF ExceedsEpsilon(scan.max_distance, eps)
             THEN IF Len(stk) + 1 > StackCap
                  THEN [aborted |-> TRUE, returned |-> <<>>]
                  ELSE RunLoop(vv, eps,
                               PushSplit(Pop(stk), start_index, scan.max_index, end_index),
                               res, last)
             ELSE RunLoop(vv, eps, Pop(stk),
                          Emit(vv, res, last, start_index, end_index), end_index)

ramer_douglas_peucker(vv, eps) ==
    IF TooShort(Len(vv))
    THEN [aborted |-> FALSE, returned |-> vv]
    ELSE RunLoop(vv, eps, <<<<0, Len(vv) - 1>>>>, <<>>, -1)

TypeOK ==
    /\ pc \in {"start", "loop", "done", "abort"}
    /\ epsilon \in EpsilonValues
    /\ Len(v) <= MaxLen
    /\ \A k \in 1 .. Len(v) : v[k] \in Elements /\ v[k].id = k - 1
    /\ Len(stack) <= StackCap
    /\ last_stack_index \in -1 .. (MaxLen - 1)


---------------------------------------------------------------------------
(* Claims *)

NonNegative == epsilon >= 0

\* s holds elements of the input, each at the index its payload names, in
\* strictly increasing index order
PositionalSubsequence(s) ==
    /\ Len(s) <= Len(v)
    /\ \A k \in 1 .. Len(s) :
          /\ s[k].id \in 0 .. (Len(v) - 1)
          /\ s[k] = At(v, s[k].id)
    /\ \A k \in 1 .. (Len(s) - 1) : s[k].id < s[k + 1].id

\* C1: for epsilon >= 0 the output (and the result accumulated so far, at every
\* step) is a subsequence of the input by position: every emitted element is
\* the unchanged input element of its index, payload included, the indices
\* strictly increase, and so the output is no longer than the input.
C1_OutputIsPositionalSubsequence ==
    NonNegative =>
        /\ PositionalSubsequence(result)
        /\ pc = "done" => PositionalSubsequence(returned)

\* a call that kept an interior element and dropped another
C1_Witness ==
    /\ pc = "done"
    /\ NonNegative
    /\ Len(returned) >= 3
    /\ Len(returned) < Len(v)

IsClosedLoop == Len(v) >= 3 /\ to_point(v[1]) = to_point(v[Len(v)])

\* C2: for an input of length >= 2 and epsilon >= 0 the output starts with the
\* input's first element and ends with its last, as two separate elements, also
\* when the two coincide as points.
C2_EndpointsKept ==
    (pc = "done" /\ NonNegative /\ Len(v) >= 2) =>
        /\ Len(returned) >= 2
        /\ returned[1] = v[1]
        /\ returned[Len(returned)] = v[Len(v)]
        /\ returned[1].id = 0
        /\ returned[Len(returned)].id = Len(v) - 1

\* a closed loop that went through the work-list loop and was split
C2_Witness ==
    /\ pc = "done"
    /\ NonNegative
    /\ IsClosedLoop
    /\ Len(returned) >= 3

\* a step of the loop that splits the popped range
IsSplitStep == pc = "loop" /\ pc' = "loop" /\ Len(stack') = Len(stack) + 1

\* a step of the loop that collapses the popped range
IsCollapseStep == pc = "loop" /\ pc' = "loop" /\ Len(stack') = Len(stack) - 1

\* both ranges pushed by the step are strictly shorter than the popped one and
\* meet at an index strictly inside it
SplitShrinks ==
    LET popped == Top(stack)
        left == Top(stack')
        right == stack'[Len(stack') - 1]
    IN  /\ left[1] = popped[1]
        /\ right[2] = popped[2]
        /\ left[2] = right[1]
        /\ popped[1] < left[2]
        /\ left[2] < popped[2]

\* the iterations the loop can still make: a range of length n = end - start
\* costs at most 2n - 1 of them (n collapses and n - 1 splits)
RECURSIVE Work(_)
Work(stk) ==
    IF stk = <<>>
    THEN 0
    ELSE Work(Pop(stk)) + 2 * (Top(stk)[2] - Top(stk)[1]) - 1

\* every range on the work list is a non-empty range of the input
RangesValid(stk) ==
    \A k \in 1 .. Len(stk) :
        /\ 0 <= stk[k][1]
        /\ stk[k][1] < stk[k][2]
        /\ stk[k][2] <= Len(v) - 1

\* C3: for epsilon >= 0 every split is at an index strictly between start_index
\* and end_index, so that every iteration of the loop lowers the work that is
\* left (a natural number, at most 2 * length - 3 at the start) and leaves
\* ranges the next iteration can index; the work list never outgrows its
\* space.  The loop therefore ends and the call returns.
C3_Terminates ==
    [][NonNegative =>
          /\ IsSplitStep => SplitShrinks
          /\ (pc = "loop" /\ pc' = "loop") => Work(stack') < Work(stack)
          /\ pc' = "loop" =>
                /\ RangesValid(stack')
                /\ Work(stack') >= 0
                /\ Work(stack') <= 2 * Len(v) - 3
          /\ pc' \in {"loop", "done"}]_vars

\* C3 as a property of the fair behaviours: for epsilon >= 0 the call returns
C3_EventuallyReturns == NonNegative ~> (pc = "done")

\* a call that split every range it could and returned
C3_Witness ==
    /\ pc = "done"
    /\ NonNegative
    /\ Len(v) >= 4
    /\ Len(returned) = Len(v)

\* C4 as claimed: with a negative epsilon and an input of length >= 3 the call
\* ends and returns a result.
C4_NegativeEpsilonTerminates ==
    (epsilon < 0 /\ Len(v) >= 3) ~> (pc = "done")

\* what the loop does instead: with a negative epsilon and an input of length
\* >= 3 no run returns, whatever space the work list has
C4_NegativeEpsilonNeverReturns ==
    (epsilon < 0 /\ Len(v) >= 3) => pc # "done"

\* twice the area of the triangle a, b, p
Cross(p, a, b) == (b[1] - a[1]) * (p[2] - a[2]) - (b[2] - a[2]) * (p[1] - a[1])

SqLen(a, b) == (b[1] - a[1]) * (b[1] - a[1]) + (b[2] - a[2]) * (b[2] - a[2])

\* p lies at most eps / EpsDen from the line through a and b, or from a when
\* a = b (eps >= 0)
WithinEpsilon(p, a, b, eps) ==
    IF a = b
    THEN SqLen(a, p) * EpsDen * EpsDen <= eps * eps
    ELSE Cross(p, a, b) * Cross(p, a, b) * EpsDen * EpsDen <= eps * eps * SqLen(a, b)

\* C5: for an input of length >= 3 and epsilon >= 0, every input element that
\* is not in the output lies between two consecutive output elements and at
\* most epsilon from the line through them (from the point, when they coincide).
C5_ErrorBound ==
    (pc = "done" /\ NonNegative /\ Len(v) >= 3) =>
        \A i \in 0 .. (Len(v) - 1) :
            (\A k \in 1 .. Len(returned) : returned[k].id # i) =>
                \E k \in 1 .. (Len(returned) - 1) :
                    /\ returned[k].id < i
                    /\ i < returned[k + 1].id
                    /\ WithinEpsilon(to_point(At(v, i)), to_point(returned[k]),
                                     to_point(returned[k + 1]), epsilon)

\* an element was dropped at a distance of exactly epsilon > 0
C5_Witness ==
    /\ pc = "done"
    /\ epsilon > 0
    /\ Len(v) >= 3
    /\ \E i \in 0 .. (Len(v) - 1) :
          \E k \in 1 .. (Len(returned) - 1) :
              LET p == to_point(At(v, i))
                  a == to_point(returned[k])
                  b == to_point(returned[k + 1])
              IN  /\ returned[k].id < i
                  /\ i < returned[k + 1].id
                  /\ a # b
                  /\ Cross(p, a, b) * Cross(p, a, b) * EpsDen * EpsDen
                         = epsilon * epsilon * SqLen(a, b)

\* C6: for 0 <= e1 <= e2 the output for e2 is no longer than the output for e1
\* (here e1 is the epsilon of the call that ran, e2 any larger one).
C6_MonotoneInEpsilon ==
    (pc = "done" /\ NonNegative) =>
        \A e2 \in EpsilonValues :
            e2 >= epsilon =>
                LET other == ramer_douglas_peucker(v, e2)
                IN  /\ ~other.aborted
                    /\ Len(other.returned) <= Len(returned)

\* a larger epsilon that gives a strictly shorter output
C6_Witness ==
    /\ pc = "done"
    /\ NonNegative
    /\ \E e2 \in EpsilonValues :
          /\ e2 > epsilon
          /\ Len(ramer_douglas_peucker(v, e2).returned) < Len(returned)
          /\ Len(returned) < Len(v)

\* C7: an input of length 0, 1 or 2 is returned unchanged for every epsilon,
\* negative ones included, and the work-list loop is never entered.
C7_ShortInputUnchanged ==
    Len(v) < 3 =>
        /\ pc \in {"start", "done"}
        /\ stack = <<>>
        /\ result = <<>>
        /\ pc = "done" => returned = v

\* a two-element input returned under a negative epsilon
C7_Witness ==
    /\ pc = "done"
    /\ Len(v) = 2
    /\ epsilon < 0
    /\ returned = v

\* C8: for epsilon >= 0 the first collapsed range starts at index 0 and pushes
\* both its endpoints; every later collapsed range starts where the one
\* collapsed just before it ended (last_stack_index) and pushes its end alone.
C8_CollapseOrder ==
    [][(NonNegative /\ IsCollapseStep) =>
          LET start_index == Top(stack)[1]
              end_index == Top(stack)[2]
          IN  /\ start_index < end_index
              /\ last_stack_index' = end_index
              /\ IF result = <<>>
                 THEN /\ start_index = 0
                      /\ last_stack_index = -1
                      /\ result' = <<At(v, 0), At(v, end_index)>>
                 ELSE /\ start_index = last_stack_index
                      /\ result[Len(result)] = At(v, start_index)
                      /\ result' = Append(result, At(v, end_index))]_vars

\* three ranges were collapsed one after the other
C8_Witness ==
    /\ pc = "loop"
    /\ NonNegative
    /\ Len(result) >= 4
    /\ last_stack_index = Len(v) - 1

LineOf(r) == <<to_point(At(v, r[1])), to_point(At(v, r[2]))>>

\* m is the smallest interior index of range r at the largest distance from
\* the line through r's endpoints
LeftmostFarthest(r, m) ==
    /\ r[1] < m
    /\ m < r[2]
    /\ \A j \in (r[1] + 1) .. (r[2] - 1) :
          LET dj == distance_point_to_line(to_point(At(v, j)), LineOf(r))
              dm == distance_point_to_line(to_point(At(v, m)), LineOf(r))
          IN  /\ dj.num * dm.den <= dm.num * dj.den
              /\ j < m => dj.num * dm.den < dm.num * dj.den

\* C9: for epsilon >= 0 a range is split at the smallest interior index whose
\* distance is the maximum over the interior indices.
C9_LeftmostMaximum ==
    [][(NonNegative /\ IsSplitStep) => LeftmostFarthest(Top(stack), Top(stack')[2])]_vars

\* the range just split had a later interior index as far away as the split
\* index
C9_Witness ==
    /\ pc = "loop"
    /\ NonNegative
    /\ Len(stack) >= 2
    /\ LET left == Top(stack)
           right == stack[Len(stack) - 1]
           r == <<left[1], right[2]>>
           m == left[2]
       IN  /\ right[1] = m
           /\ \E j \in (m + 1) .. (r[2] - 1) :
                 distance_point_to_line(to_point(At(v, j)), LineOf(r))
                     = distance_point_to_line(to_point(At(v, m)), LineOf(r))

\* C10: for epsilon >= 0, simplifying the output again with the same epsilon
\* returns it unchanged.
C10_Idempotent ==
    (pc = "done" /\ NonNegative) =>
        ramer_douglas_peucker(returned, epsilon)
            = [aborted |-> FALSE, returned |-> returned]

\* an output with interior elements, shorter than its input
C10_Witness ==
    /\ pc = "done"
    /\ NonNegative
    /\ Len(returned) >= 3
    /\ Len(returned) + 1 <= Len(v)
    /\ epsilon > 0

=============================================================================
